---- MODULE Spec2Model ----
(***************************************************************************)
(* Data model of the reddit clone: the three Sequelize models of           *)
(* src/reddit.js (user, content, vote), the two associations wired between *)
(* them, the constraints of the tables db.sync() creates, and the three    *)
(* data functions the README declares (createNewUser, createNewContent,    *)
(* voteOnContent) running as asynchronous calls against the database.      *)
(***************************************************************************)
EXTENDS Integers, FiniteSets, TLC

\* ---------------------------------------------------------------- bounds
MaxUsers == 2       \* user ids the auto-increment counter may hand out
MaxContents == 2    \* content ids the auto-increment counter may hand out
MaxCalls == 2       \* data-function calls in flight at the same time
LiveMaxContents == 1    \* content ids handed out in the runs checked for liveness

\* ---------------------------------------------------------------- inputs
NULL == 0
NoName == "NULL"
Usernames == {"alice"}
Passwords == {"secret"}
Urls == {"http://x.com"}
Titles == {"X"}
UserIds == 1..MaxUsers
ContentIds == 1..MaxContents
CallIds == 1..MaxCalls
NoRec == [kind |-> "none"]
Now == 1    \* a datetime: the value NOW() of a NOT NULL timestamp column

VARIABLES
    users,          \* rows of table users
    contents,       \* rows of table contents
    votes,          \* rows of table votes
    nextUserId,     \* AUTO_INCREMENT counter of users.id
    nextContentId,  \* AUTO_INCREMENT counter of contents.id
    calls,          \* the data-function calls: arguments, position, callback
    returnedVotes   \* history: pairs a call that has returned tried to insert

vars == <<users, contents, votes, nextUserId, nextContentId, calls, returnedVotes>>

\* ---------------------------------------------------------------- schema
\* db.define('user', {username, password, email}); Sequelize adds id,
\* createdAt and updatedAt.
User(id, username, password, now) ==
    [id |-> id, username |-> username, password |-> password,
     email |-> NoName, createdAt |-> now, updatedAt |-> now]

\* db.define('content', {url, title}); User.hasMany(Content) adds the
\* nullable foreign key userId.
Content(id, url, title, userId, now) ==
    [id |-> id, url |-> url, title |-> title, userId |-> userId,
     createdAt |-> now, updatedAt |-> now]

\* db.define('vote', {upVote}); the belongsToMany association adds the two
\* foreign keys, which together are the primary key.
Vote(userId, contentId, upVote, now) ==
    [userId |-> userId, contentId |-> contentId, upVote |-> upVote,
     createdAt |-> now, updatedAt |-> now]

\* Model.findById: the rows of the table with that id (none or one).
findById(table, id) == {r \in table : r.id = id}

\* PRIMARY KEY (userId, contentId): no stored row has this pair.
VotePrimaryKeyFreeNoCheck(rows, userId, contentId) == TRUE

VotePrimaryKeyFree(rows, userId, contentId) ==
    ~ \E v \in rows : v.userId = userId /\ v.contentId = contentId

\* votes_ibfk_1 and votes_ibfk_2: both referenced rows exist.
VoteForeignKeysOkNoCheck(userId, contentId) == TRUE

VoteForeignKeysOk(userId, contentId) ==
    /\ findById(users, userId) # {}
    /\ findById(contents, contentId) # {}

\* ON DELETE CASCADE of votes_ibfk_1: votes left after a user row goes.
VotesAfterUserDelete(rows, userId) == {v \in rows : v.userId # userId}

\* ON DELETE CASCADE of votes_ibfk_2: votes left after a content row goes.
VotesAfterContentDeleteKeep(rows, contentId) == rows

VotesAfterContentDelete(rows, contentId) ==
    {v \in rows : v.contentId # contentId}

\* User.hasMany(Content) is declared without an onDelete option: the
\* foreign key contents.userId is nullable and gets ON DELETE SET NULL.
ContentsAfterUserDelete(rows, userId) ==
    {IF r.userId = userId THEN [r EXCEPT !.userId = NULL] ELSE r : r \in rows}

\* The auto-incrementing id column.
AutoIncrementStuck(next) == 1

AutoIncrement(next) == next

\* user.addContent: the content row carries the user's id as its owner.
addContentUnowned(userId) == NULL

addContent(userId) == userId

\* addVote: the through row carries the direction that was passed.
addVote(isUpVote) == isUpVote

\* ---------------------------------------------------------------- calls
Idle == [op |-> "none", pc |-> "idle", username |-> NoName,
         password |-> NoName, userId |-> NULL, contentId |-> NULL,
         url |-> NoName, title |-> NoName, isUpVote |-> FALSE,
         err |-> "none", rec |-> NoRec, cb |-> 0, early |-> FALSE]

InFlight(c) == calls[c].pc \in {"lookup", "insert"}

\* The completion callback: error-first, invoked once.
Callback(call, err, rec) ==
    [call EXCEPT !.pc = "done", !.err = err, !.rec = rec, !.cb = @ + 1]

Init ==
    /\ users = {}
    /\ contents = {}
    /\ votes = {}
    /\ nextUserId = 1
    /\ nextContentId = 1
    /\ calls = [c \in CallIds |-> Idle]
    /\ returnedVotes = {}

\* ------------------------------------------------------- createNewUser
PendingUsers == Cardinality({c \in CallIds : InFlight(c) /\ calls[c].op = "createNewUser"})

InvokeCreateNewUser(c) ==
    /\ calls[c].pc = "idle"
    /\ nextUserId + PendingUsers <= MaxUsers
    /\ \E username \in Usernames \cup {NoName}, password \in Passwords :
         calls' = [calls EXCEPT ![c] =
                     [Idle EXCEPT !.op = "createNewUser", !.pc = "insert",
                                  !.username = username, !.password = password]]
    /\ UNCHANGED <<users, contents, votes, nextUserId, nextContentId, returnedVotes>>

CreateUserRow(c) ==
    /\ calls[c].pc = "insert"
    /\ calls[c].op = "createNewUser"
    /\ IF calls[c].username = NoName
       THEN /\ calls' = [calls EXCEPT ![c] = Callback(@, "ConstraintViolation", NoRec)]
            /\ UNCHANGED <<users, nextUserId>>
       ELSE LET row == User(AutoIncrement(nextUserId), calls[c].username,
                            calls[c].password, Now)
            IN /\ users' = users \cup {row}
               /\ nextUserId' = nextUserId + 1
               /\ calls' = [calls EXCEPT ![c] = Callback(@, "none", row)]
    /\ UNCHANGED <<contents, votes, nextContentId, returnedVotes>>

\* ---------------------------------------------------- createNewContent
PendingContents == Cardinality({c \in CallIds : InFlight(c) /\ calls[c].op = "createNewContent"})

InvokeCreateNewContent(c) ==
    /\ calls[c].pc = "idle"
    /\ nextContentId + PendingContents <= MaxContents
    /\ \E userId \in UserIds, url \in Urls, title \in Titles :
         calls' = [calls EXCEPT ![c] =
                     [Idle EXCEPT !.op = "createNewContent", !.pc = "lookup",
                                  !.userId = userId, !.url = url, !.title = title]]
    /\ UNCHANGED <<users, contents, votes, nextUserId, nextContentId, returnedVotes>>

LookupUser(c) ==
    /\ calls[c].pc = "lookup"
    /\ calls[c].op = "createNewContent"
    /\ IF findById(users, calls[c].userId) = {}
       THEN calls' = [calls EXCEPT ![c] = Callback(@, "NotFound", NoRec)]
       ELSE calls' = [calls EXCEPT ![c].pc = "insert"]
    /\ UNCHANGED <<users, contents, votes, nextUserId, nextContentId, returnedVotes>>

CreateContentRow(c) ==
    /\ calls[c].pc = "insert"
    /\ calls[c].op = "createNewContent"
    /\ IF findById(users, calls[c].userId) = {}
       THEN /\ calls' = [calls EXCEPT ![c] = Callback(@, "NotFound", NoRec)]
            /\ UNCHANGED <<contents, nextContentId>>
       ELSE LET row == Content(AutoIncrement(nextContentId), calls[c].url,
                               calls[c].title, addContent(calls[c].userId), Now)
            IN /\ contents' = contents \cup {row}
               /\ nextContentId' = nextContentId + 1
               /\ calls' = [calls EXCEPT ![c] = Callback(@, "none", row)]
    /\ UNCHANGED <<users, votes, nextUserId, returnedVotes>>

\* ------------------------------------------------------- voteOnContent
InvokeVoteOnContent(c) ==
    /\ calls[c].pc = "idle"
    /\ \E contentId \in ContentIds, userId \in UserIds, isUpVote \in BOOLEAN :
         calls' = [calls EXCEPT ![c] =
                     [Idle EXCEPT !.op = "voteOnContent", !.pc = "lookup",
                                  !.userId = userId, !.contentId = contentId,
                                  !.isUpVote = isUpVote]]
    /\ UNCHANGED <<users, contents, votes, nextUserId, nextContentId, returnedVotes>>

LookupUserAndContent(c) ==
    /\ calls[c].pc = "lookup"
    /\ calls[c].op = "voteOnContent"
    /\ IF \/ findById(users, calls[c].userId) = {}
          \/ findById(contents, calls[c].contentId) = {}
       THEN calls' = [calls EXCEPT ![c] = Callback(@, "NotFound", NoRec)]
       ELSE calls' = [calls EXCEPT ![c].pc = "insert",
                                   ![c].early = \A v \in votes :
                                       \/ v.userId # calls[c].userId
                                       \/ v.contentId # calls[c].contentId]
    /\ UNCHANGED <<users, contents, votes, nextUserId, nextContentId, returnedVotes>>

CreateVoteRow(c) ==
    /\ calls[c].pc = "insert"
    /\ calls[c].op = "voteOnContent"
    /\ IF ~VoteForeignKeysOk(calls[c].userId, calls[c].contentId)
       THEN /\ calls' = [calls EXCEPT ![c] = Callback(@, "NotFound", NoRec)]
            /\ UNCHANGED votes
       ELSE IF ~VotePrimaryKeyFree(votes, calls[c].userId, calls[c].contentId)
       THEN /\ calls' = [calls EXCEPT ![c] = Callback(@, "DuplicateVote", NoRec)]
            /\ UNCHANGED votes
       ELSE LET row == Vote(calls[c].userId, calls[c].contentId,
                            addVote(calls[c].isUpVote), Now)
            IN /\ votes' = votes \cup {row}
               /\ calls' = [calls EXCEPT ![c] = Callback(@, "none", row)]
    /\ UNCHANGED <<users, contents, nextUserId, nextContentId, returnedVotes>>

\* ------------------------------------------------------------ database
\* The caller takes the callback's result; the slot is free for a new call.
Return(c) ==
    /\ calls[c].pc = "done"
    /\ calls' = [calls EXCEPT ![c] = Idle]
    /\ returnedVotes' =
         IF /\ calls[c].op = "voteOnContent"
            /\ calls[c].err \in {"none", "DuplicateVote"}
            /\ VoteForeignKeysOk(calls[c].userId, calls[c].contentId)
         THEN returnedVotes \cup {<<calls[c].userId, calls[c].contentId>>}
         ELSE returnedVotes
    /\ UNCHANGED <<users, contents, votes, nextUserId, nextContentId>>

DeleteUser(id) ==
    /\ findById(users, id) # {}
    /\ users' = users \ findById(users, id)
    /\ contents' = ContentsAfterUserDelete(contents, id)
    /\ votes' = VotesAfterUserDelete(votes, id)
    /\ returnedVotes' = {p \in returnedVotes : p[1] # id}
    /\ UNCHANGED <<nextUserId, nextContentId, calls>>

DeleteContent(id) ==
    /\ findById(contents, id) # {}
    /\ contents' = contents \ findById(contents, id)
    /\ votes' = VotesAfterContentDelete(votes, id)
    /\ returnedVotes' = {p \in returnedVotes : p[2] # id}
    /\ UNCHANGED <<users, nextUserId, nextContentId, calls>>

Step(c) ==
    \/ CreateUserRow(c)
    \/ LookupUser(c)
    \/ CreateContentRow(c)
    \/ LookupUserAndContent(c)
    \/ CreateVoteRow(c)

Next ==
    \/ \E c \in CallIds : InvokeCreateNewUser(c)
    \/ \E c \in CallIds : InvokeCreateNewContent(c)
    \/ \E c \in CallIds : InvokeVoteOnContent(c)
    \/ \E c \in CallIds : CreateUserRow(c)
    \/ \E c \in CallIds : LookupUser(c)
    \/ \E c \in CallIds : CreateContentRow(c)
    \/ \E c \in CallIds : LookupUserAndContent(c)
    \/ \E c \in CallIds : CreateVoteRow(c)
    \/ \E c \in CallIds : Return(c)
    \/ \E id \in UserIds : DeleteUser(id)
    \/ \E id \in ContentIds : DeleteContent(id)

Spec == Init /\ [][Next]_vars

\* The runs checked for liveness hand out fewer content ids: new
\* createNewContent calls are held back earlier, no step of a call in flight is.
LiveInvokeCreateNewContent(c) ==
    /\ nextContentId + PendingContents <= LiveMaxContents
    /\ InvokeCreateNewContent(c)

LiveNext ==
    \/ \E c \in CallIds : InvokeCreateNewUser(c)
    \/ \E c \in CallIds : LiveInvokeCreateNewContent(c)
    \/ \E c \in CallIds : InvokeVoteOnContent(c)
    \/ \E c \in CallIds : Step(c)
    \/ \E c \in CallIds : Return(c)
    \/ \E id \in UserIds : DeleteUser(id)
    \/ \E id \in ContentIds : DeleteContent(id)

\* Every pending provider request is eventually answered.
FairSpec == Init /\ [][LiveNext]_vars /\ \A c \in CallIds : WF_vars(Step(c))

\* ------------------------------------------------------------- claims
VoteCall(c) == calls[c].op = "voteOnContent"

\* The rows a vote for this pair refers to are in their tables.
VoteRefsExist(userId, contentId) ==
    /\ \E u \in users : u.id = userId
    /\ \E r \in contents : r.id = contentId

SamePair(c, v) == v.userId = calls[c].userId /\ v.contentId = calls[c].contentId

StoredFor(c) == {v \in votes : SamePair(c, v)}

\* The step in which call c gets its answer and invokes the callback.
Finishes(c) == calls[c].pc # "done" /\ calls'[c].pc = "done"

\* C1: in every reachable state the votes table holds at most one row for
\* any (userId, contentId) pair, whatever directions were attempted.
C1_OneVotePerPair ==
    \A v, w \in votes :
        (v.userId = w.userId /\ v.contentId = w.contentId) => v = w

\* A vote is stored and a second attempt on its pair, in the other
\* direction, has been answered.
C1_Witness ==
    \E c \in CallIds :
        /\ VoteCall(c)
        /\ calls[c].pc = "done"
        /\ calls[c].err = "DuplicateVote"
        /\ \E v \in StoredFor(c) : v.upVote # calls[c].isUpVote

\* Calls c and d are the only ones that tried to insert a vote for their
\* common pair, which still exists; their directions are opposite; both found
\* no vote stored when they looked the user and the content up; both finished.
RacedVotes(c, d) ==
    /\ c # d
    /\ VoteCall(c) /\ VoteCall(d)
    /\ calls[c].pc = "done" /\ calls[d].pc = "done"
    /\ calls[c].userId = calls[d].userId
    /\ calls[c].contentId = calls[d].contentId
    /\ calls[c].isUpVote # calls[d].isUpVote
    /\ calls[c].early /\ calls[d].early
    /\ VoteRefsExist(calls[c].userId, calls[c].contentId)
    /\ <<calls[c].userId, calls[c].contentId>> \notin returnedVotes
    /\ \A e \in CallIds \ {c, d} :
          ~ ( /\ VoteCall(e)
              /\ calls[e].userId = calls[c].userId
              /\ calls[e].contentId = calls[c].contentId
              /\ calls[e].pc = "done"
              /\ calls[e].err # "NotFound" )

ContentCall(c) == calls[c].op = "createNewContent"

UserCall(c) == calls[c].op = "createNewUser"

\* C4: createNewContent for an existing user inserts exactly one content row
\* owned by that user and hands it to the callback; for a user that does not
\* exist it fails with NotFound and leaves the contents table unchanged.
C4_CreateNewContent ==
    [][ \A c \in CallIds :
          (ContentCall(c) /\ Finishes(c)) =>
             IF findById(users, calls[c].userId) # {}
             THEN /\ calls'[c].err = "none"
                  /\ calls'[c].rec \notin contents
                  /\ contents' = contents \cup {calls'[c].rec}
                  /\ calls'[c].rec.userId = calls[c].userId
                  /\ calls'[c].rec.url = calls[c].url
                  /\ calls'[c].rec.title = calls[c].title
             ELSE /\ calls'[c].err = "NotFound"
                  /\ calls'[c].rec = NoRec
                  /\ contents' = contents ]_vars

\* One call created a content row for its user, another was refused for a
\* user id that is not in the table.
C4_Witness ==
    \E c, d \in CallIds :
        /\ ContentCall(c) /\ calls[c].pc = "done" /\ calls[c].err = "none"
        /\ calls[c].rec \in contents
        /\ calls[c].rec.userId = calls[c].userId
        /\ ContentCall(d) /\ calls[d].pc = "done" /\ calls[d].err = "NotFound"

\* C5: in every reachable state every content row has an owner reference
\* that points to an existing user.
C5_ContentOwnerExists ==
    \A r \in contents : findById(users, r.userId) # {}

\* C6: deleting a user removes, in the same step, the content the user owns,
\* the votes the user cast and the votes on that content, and nothing else.
C6_UserDeleteCascades ==
    [][ \A u \in users :
          u \notin users' =>
             LET owned == {r \in contents : r.userId = u.id}
             IN /\ contents' = contents \ owned
                /\ votes' = {v \in votes :
                               /\ v.userId # u.id
                               /\ \A r \in owned : v.contentId # r.id} ]_vars

\* C7: voteOnContent fails with NotFound and inserts nothing when the user
\* or the content does not exist; when both exist and the pair has no vote
\* it inserts exactly one row (userId, contentId, upVote = isUpVote) and
\* hands it to the callback.
C7_VoteOnContent ==
    [][ \A c \in CallIds :
          (VoteCall(c) /\ Finishes(c)) =>
             IF ~VoteRefsExist(calls[c].userId, calls[c].contentId)
             THEN /\ calls'[c].err = "NotFound"
                  /\ calls'[c].rec = NoRec
                  /\ votes' = votes
             ELSE StoredFor(c) = {} =>
                  /\ calls'[c].err = "none"
                  /\ calls'[c].rec \notin votes
                  /\ votes' = votes \cup {calls'[c].rec}
                  /\ calls'[c].rec.userId = calls[c].userId
                  /\ calls'[c].rec.contentId = calls[c].contentId
                  /\ calls'[c].rec.upVote = calls[c].isUpVote ]_vars

\* A created downvote, and a vote refused because its user or its content
\* is not in the tables.
C7_Witness ==
    \E c, d \in CallIds :
        /\ VoteCall(c) /\ calls[c].pc = "done" /\ calls[c].err = "none"
        /\ calls[c].rec \in votes /\ ~calls[c].rec.upVote
        /\ VoteCall(d) /\ calls[d].pc = "done" /\ calls[d].err = "NotFound"

\* What the step stored for call c: the record handed to the callback is a
\* new row of the table the call writes to.
Stored(c) ==
    /\ calls'[c].rec # NoRec
    /\ \/ UserCall(c) /\ calls'[c].rec \notin users /\ calls'[c].rec \in users'
       \/ ContentCall(c) /\ calls'[c].rec \notin contents /\ calls'[c].rec \in contents'
       \/ VoteCall(c) /\ calls'[c].rec \notin votes /\ calls'[c].rec \in votes'

C9_CreateNewUser ==
    [][ \A c \in CallIds :
          (UserCall(c) /\ Finishes(c) /\ calls[c].username \in Usernames
             /\ calls[c].password \in Passwords) =>
             /\ calls'[c].err = "none"
             /\ \A u \in users : u.id # calls'[c].rec.id
             /\ users' = users \cup {calls'[c].rec}
             /\ calls'[c].rec.username = calls[c].username
             /\ calls'[c].rec.password = calls[c].password
             /\ calls'[c].rec.createdAt # NULL
             /\ calls'[c].rec.updatedAt # NULL
             /\ findById(users', calls'[c].rec.id) = {calls'[c].rec}
             /\ contents' = contents
             /\ votes' = votes ]_vars

\* A second user was created while the first is still in the table.
C9_Witness ==
    \E c \in CallIds :
        /\ UserCall(c) /\ calls[c].pc = "done" /\ calls[c].err = "none"
        /\ calls[c].rec \in users
        /\ \E u \in users : u.id # calls[c].rec.id

\* C10: every vote row refers to an existing user and an existing content;
\* deleting a content removes the votes on it and leaves the users and the
\* other content rows unchanged.
C10_VoteReferences ==
    /\ [](\A v \in votes : VoteRefsExist(v.userId, v.contentId))
    /\ [][ \A r \in contents :
             (r \notin contents' /\ users' = users) =>
                /\ contents' = contents \ {r}
                /\ votes' = {v \in votes : v.contentId # r.id} ]_vars

\* A call created a vote; its user is still there, its content is gone and
\* so is the vote.
C10_Witness ==
    \E c \in CallIds :
        /\ VoteCall(c) /\ calls[c].pc = "done" /\ calls[c].err = "none"
        /\ calls[c].rec \notin votes
        /\ \E u \in users : u.id = calls[c].userId
        /\ \A r \in contents : r.id # calls[c].contentId
====
